---- MODULE Spec2Model ----
(***************************************************************************)
(* Model of script/Script2RenderMultiCam.py: the camera intrinsics         *)
(* derivation (get_K_from_blender), the per-mesh render-and-export loop    *)
(* (render_depth_color) and the directory walk that drives it.             *)
(*                                                                         *)
(* Python strings are tuples of one-character strings, so that upper(),    *)
(* the `in` substring test and os.path.splitext are computed and not       *)
(* assumed.  Floats are exact rationals <<numerator, denominator>>; a      *)
(* denominator of 0 marks the value of a division that raised              *)
(* ZeroDivisionError.                                                      *)
(***************************************************************************)
EXTENDS Integers, Sequences, FiniteSets, TLC

(***************************************************************************)
(* Bounds of the model.                                                    *)
(***************************************************************************)
MaxCams == 2
MaxFiles == 2
MaxRuns == 2

(***************************************************************************)
(* Python str operations.                                                  *)
(***************************************************************************)
LowerLetters ==
  <<"a","b","c","d","e","f","g","h","i","j","k","l","m",
    "n","o","p","q","r","s","t","u","v","w","x","y","z">>

UpperLetters ==
  <<"A","B","C","D","E","F","G","H","I","J","K","L","M",
    "N","O","P","Q","R","S","T","U","V","W","X","Y","Z">>

\* str.upper() on one character
UpperChar(c) ==
  IF \E i \in 1..Len(LowerLetters) : LowerLetters[i] = c
    THEN UpperLetters[CHOOSE i \in 1..Len(LowerLetters) : LowerLetters[i] = c]
    ELSE c

\* str.upper()
Upper(s) == [i \in 1..Len(s) |-> UpperChar(s[i])]

\* the operator  a in b  on two str
IsSubstr(a, b) ==
  \E i \in 0..(Len(b) - Len(a)) : SubSeq(b, i + 1, i + Len(a)) = a

\* p.rfind('.') as a 1-based index, 0 when there is no dot
RFindDot(p) ==
  IF \E i \in 1..Len(p) : p[i] = "."
    THEN CHOOSE i \in 1..Len(p) :
           p[i] = "." /\ \A j \in (i + 1)..Len(p) : p[j] # "."
    ELSE 0

\* os.path.splitext on a name without separator: <<root, ext>>; a name made
\* of leading dots only up to the last dot has no extension
Splitext(p) ==
  LET dot == RFindDot(p) IN
  IF dot > 0 /\ \E i \in 1..(dot - 1) : p[i] # "."
    THEN <<SubSeq(p, 1, dot - 1), SubSeq(p, dot, Len(p))>>
    ELSE <<p, <<>> >>

\* os.path.splitext(path)[0] on a path given by its components: only the last
\* component can lose an extension
SplitextPath(comps) ==
  IF comps = <<>> THEN <<>>
  ELSE SubSeq(comps, 1, Len(comps) - 1) \o <<Splitext(comps[Len(comps)])[1]>>

(***************************************************************************)
(* Exact arithmetic for Python's float expressions.                        *)
(***************************************************************************)
RECURSIVE GCD(_, _)
GCD(a, b) == IF b = 0 THEN a ELSE GCD(b, a % b)

Err == <<0, 0>>

IsErr(a) == a[2] = 0

RNorm(n, d) ==
  LET g == GCD(n, d) IN IF g = 0 THEN Err ELSE <<n \div g, d \div g>>

RInt(i) == <<i, 1>>

RMul(a, b) ==
  IF IsErr(a) \/ IsErr(b) THEN Err ELSE RNorm(a[1] * b[1], a[2] * b[2])

\* a / b raises ZeroDivisionError when b is zero
RDiv(a, b) ==
  IF IsErr(a) \/ IsErr(b) \/ b[1] = 0 THEN Err
  ELSE RNorm(a[1] * b[2], a[2] * b[1])

(***************************************************************************)
(* get_K_from_blender                                                      *)
(***************************************************************************)
\* the branch taken for sensor_fit == 'VERTICAL'
ScaleVertical(camd, render, scale, par) ==
  <<RDiv(RDiv(RMul(RInt(render.resolution_x), scale), RInt(camd.sensor_width)), par),
    RDiv(RMul(RInt(render.resolution_y), scale), RInt(camd.sensor_height))>>

\* the branch taken for 'HORIZONTAL' and 'AUTO'
ScaleHorizontal(camd, render, scale, par) ==
  <<RDiv(RMul(RInt(render.resolution_x), scale), RInt(camd.sensor_width)),
    RDiv(RMul(RMul(RInt(render.resolution_y), scale), par), RInt(camd.sensor_height))>>

\* a bug that takes the horizontal branch for every fit mode
PixelScaleIgnoringFit(camd, render, scale, par) ==
  ScaleHorizontal(camd, render, scale, par)

\* a bug that divides s_u by the sensor height in the vertical branch
PixelScaleWrongSensor(camd, render, scale, par) ==
  IF camd.sensor_fit = "VERTICAL"
    THEN <<RDiv(RDiv(RMul(RInt(render.resolution_x), scale),
                     RInt(camd.sensor_height)), par),
           RDiv(RMul(RInt(render.resolution_y), scale), RInt(camd.sensor_height))>>
    ELSE ScaleHorizontal(camd, render, scale, par)

\* <<s_u, s_v>>
PixelScale(camd, render, scale, par) ==
  IF camd.sensor_fit = "VERTICAL"
    THEN ScaleVertical(camd, render, scale, par)
    ELSE ScaleHorizontal(camd, render, scale, par)

\* the result of get_K_from_blender: K (rows of rationals), and whether a
\* division raised ZeroDivisionError instead
get_K_from_blender(camd, render) ==
  LET f_in_mm == RInt(camd.lens)
      scale == RDiv(RInt(render.resolution_percentage), RInt(100))
      pixel_aspect_ratio ==
        RDiv(RInt(render.pixel_aspect_x), RInt(render.pixel_aspect_y))
      s == PixelScale(camd, render, scale, pixel_aspect_ratio)
      alpha_u == RMul(f_in_mm, s[1])
      alpha_v == RMul(f_in_mm, s[2])
      u_0 == RDiv(RMul(RInt(render.resolution_x), scale), RInt(2))
      v_0 == RDiv(RMul(RInt(render.resolution_y), scale), RInt(2))
      skew == RInt(0)
  IN [raised |-> IsErr(pixel_aspect_ratio) \/ IsErr(alpha_u) \/ IsErr(alpha_v),
      K |-> << <<alpha_u, skew, u_0>>,
               <<RInt(0), alpha_v, v_0>>,
               <<RInt(0), RInt(0), RInt(1)>> >>]

(***************************************************************************)
(* The scene, the command line and the input tree.                         *)
(***************************************************************************)
S_all == <<"a","l","l">>
S_rgb == <<"r","g","b">>
S_ir == <<"i","r">>
S_png == <<"p","n","g">>
S_dot_obj == <<".","o","b","j">>
S_K_txt == <<"_","K",".","t","x","t">>
S_RT_txt == <<"_","R","T",".","t","x","t">>
S_intrinsic_txt == <<"i","n","t","r","i","n","s","i","c",".","t","x","t">>
S_extrinsic_txt == <<"e","x","t","r","i","n","s","i","c",".","t","x","t">>

\* cameras a rig can be made of: bpy.data.cameras entries with the object
\* of the same name (its matrix_world decomposed into loc and rot)
CameraCatalog ==
  { [name |-> <<"R","G","B","_","0">>,
     data |-> [lens |-> 50, sensor_width |-> 36, sensor_height |-> 24,
               sensor_fit |-> "AUTO"],
     loc |-> <<1, 0, 2>>, rot |-> <<1, 0, 0, 0>>],
    [name |-> <<"r","g","b","_","0">>,
     data |-> [lens |-> 35, sensor_width |-> 36, sensor_height |-> 24,
               sensor_fit |-> "HORIZONTAL"],
     loc |-> <<0, 1, 2>>, rot |-> <<0, 1, 0, 0>>],
    [name |-> <<"I","R","_","d","e","p","t","h">>,
     data |-> [lens |-> 28, sensor_width |-> 32, sensor_height |-> 18,
               sensor_fit |-> "VERTICAL"],
     loc |-> <<0, 0, 3>>, rot |-> <<0, 0, 1, 0>>],
    [name |-> <<"R","G","B","_","1">>,
     data |-> [lens |-> 50, sensor_width |-> 36, sensor_height |-> 0,
               sensor_fit |-> "AUTO"],
     loc |-> <<2, 2, 2>>, rot |-> <<0, 0, 0, 1>>] }

\* values of the -m argument
ModeChoices == {S_all, S_rgb, S_ir}

\* the render settings of the scene: -x and -y defaults, full resolution,
\* square pixels
SceneRender ==
  [resolution_x |-> 640, resolution_y |-> 480, resolution_percentage |-> 100,
   pixel_aspect_x |-> 1, pixel_aspect_y |-> 1]

\* files of the input tree in the order os.walk yields them: the directory
\* relative to in_dir_root (path components) and the file name
EntryCatalog ==
  << [dir |-> << <<"d">> >>, file |-> <<"m",".","o","b","j">>],
     [dir |-> << <<"d">> >>, file |-> <<"n",".","o","b","j">>],
     [dir |-> << <<"d">> >>,
      file |-> <<"m","o","d","e","l",".","o","b","j",".","b","a","k">>],
     [dir |-> << <<"d">> >>, file |-> <<"a",".","o","b","j","x">>],
     [dir |-> << <<"d">> >>, file |-> <<"t",".","m","t","l">>],
     [dir |-> << <<"d",".","x">> >>, file |-> <<"m",".","o","b","j">>] >>

\* the elements of a set of indices in increasing order
SortedSeq(S) ==
  [i \in 1..Cardinality(S) |->
     CHOOSE x \in S : Cardinality({y \in S : y < x}) = i - 1]

TreeChoices ==
  { [i \in 1..Cardinality(S) |-> EntryCatalog[SortedSeq(S)[i]]] :
      S \in {T \in SUBSET (1..Len(EntryCatalog)) : Cardinality(T) <= MaxFiles} }

\* rigs: cameras of the catalog in any enumeration order, names distinct
RigChoices ==
  UNION { {r \in [1..n -> CameraCatalog] :
             \A i, j \in 1..n : i # j => r[i] # r[j]} : n \in 0..MaxCams }

(***************************************************************************)
(* State.                                                                  *)
(***************************************************************************)
VARIABLES
  tree,          \* the input tree, as os.walk enumerates its files
  cameras,       \* bpy.data.cameras
  out_mode,      \* args.out_mode
  run,           \* how many times the batch was started
  pc,            \* position in the script
  fi,            \* index in tree of the file the walk is at
  ci,            \* index in cameras of the camera the loop is at
  dirs,          \* output directories that exist
  fs,            \* output files: path -> content
  fs_prev,       \* fs and dirs as the previous run of the batch left them
  scene_mesh,    \* the imported object in the scene (index in tree, 0: none)
  scene_camera,  \* bpy.context.scene.camera (name, <<>>: not set by the script)
  render_result, \* bpy.data.images['Render Result']
  cameras_K,     \* dict of render_depth_color, as its items in insertion order
  cameras_RT,    \* dict of render_depth_color, as its items in insertion order
  imported,      \* indices in tree of the files given to import_scene.obj
  log,           \* steps of render_depth_color taken for the current mesh
  exc,           \* the exception that ended the script, if any
  kcam,          \* camera data given to get_K_from_blender
  krender,       \* render settings given to get_K_from_blender
  kout,          \* its result
  kprev,         \* its result before the sensor fit was switched
  kpc            \* position of the intrinsics derivation

mainvars ==
  <<tree, cameras, out_mode, run, pc, fi, ci, dirs, fs, fs_prev, scene_mesh,
    scene_camera, render_result, cameras_K, cameras_RT, imported, log, exc>>

kvars == <<kcam, krender, kout, kprev, kpc>>

vars == <<mainvars, kvars>>

NoExc == [type |-> "", at |-> ""]

NoRender == [mesh |-> 0, cam |-> <<>>]

NoK == [raised |-> FALSE, K |-> <<>>]

(***************************************************************************)
(* Helpers of the script.                                                  *)
(***************************************************************************)
\* the test  '.obj' in file  of the walk
IsMeshFile(file) == IsSubstr(S_dot_obj, file)

\* out_dir relative to out_dir_root, as path components:
\* splitext(dirname(filepath)[len(in_dir_root):])[0]
OutDir(entry) == SplitextPath(entry.dir)

\* the test of the output mode on a camera name
ShouldRender(mode, name) ==
  mode = S_all \/ IsSubstr(Upper(mode), name)

outpath_image(out_dir, name) ==
  [dir |-> out_dir, name |-> name \o <<".">> \o S_png]

outpath_K(out_dir, name) == [dir |-> out_dir, name |-> name \o S_K_txt]

outpath_RT(out_dir, name) == [dir |-> out_dir, name |-> name \o S_RT_txt]

path_intrinsic(out_dir) == [dir |-> out_dir, name |-> S_intrinsic_txt]

path_extrinsic(out_dir) == [dir |-> out_dir, name |-> S_extrinsic_txt]

\* a bug that opens the file for appending
WriteFileAppend(f, path, content) ==
  [p \in DOMAIN f \cup {path} |->
     IF p = path
       THEN (IF path \in DOMAIN f THEN f[path] \o content ELSE content)
       ELSE f[p]]

\* numpy.savetxt and save_render: the file is created or overwritten
WriteFile(f, path, content) ==
  [p \in DOMAIN f \cup {path} |-> IF p = path THEN content ELSE f[p]]

\* a bug that puts a new key first
DictSetPrepend(d, k, v) ==
  IF \E i \in 1..Len(d) : d[i][1] = k
    THEN [i \in 1..Len(d) |-> IF d[i][1] = k THEN <<k, v>> ELSE d[i]]
    ELSE <<<<k, v>>>> \o d

\* d[k] = v on a dict: a known key keeps its place, a new one goes last
DictSet(d, k, v) ==
  IF \E i \in 1..Len(d) : d[i][1] = k
    THEN [i \in 1..Len(d) |-> IF d[i][1] = k THEN <<k, v>> ELSE d[i]]
    ELSE Append(d, <<k, v>>)

\* d[k]
DictGet(d, k) == d[CHOOSE i \in 1..Len(d) : d[i][1] = k][2]

\* list(d.values())
DictValues(d) == [i \in 1..Len(d) |-> d[i][2]]

\* numpy.matrix(K).A1.tolist()
Flatten(K) == K[1] \o K[2] \o K[3]

\* get_RT_from_blender, then numpy.concatenate((R, T))[None].flatten()
RTRow(cam) == cam.rot \o cam.loc

Event(op, cam, active) == [op |-> op, cam |-> cam, active |-> active]

\* a bug that leaves the calibration of an unselected camera out
AfterDecisionSkipping(selected) == IF selected THEN "render" ELSE "next"

\* lines 107-112: render_image() is called or not, then the calibration
AfterDecision(selected) == IF selected THEN "render" ELSE "krt"

(***************************************************************************)
(* The batch: the walk of lines 218-263 and render_depth_color.            *)
(***************************************************************************)
camera == cameras[ci]

out_dir == OutDir(tree[fi])

\* a bug that catches the exception in the walk and goes on with the next file
PropagateCaught(type) ==
  /\ exc' = [type |-> type, at |-> pc]
  /\ pc' = "cleanup"
  /\ UNCHANGED kvars
  /\ UNCHANGED <<tree, cameras, out_mode, run, fi, ci, dirs, fs, fs_prev,
                 scene_mesh, scene_camera, render_result, cameras_K,
                 cameras_RT, imported, log>>

\* an exception raised at the current position: nothing catches it, the
\* interpreter ends the script
Propagate(type) ==
  /\ exc' = [type |-> type, at |-> pc]
  /\ pc' = "aborted"
  /\ UNCHANGED kvars
  /\ UNCHANGED <<tree, cameras, out_mode, run, fi, ci, dirs, fs, fs_prev,
                 scene_mesh, scene_camera, render_result, cameras_K,
                 cameras_RT, imported, log>>

\* lines 219-220: a file that is not taken for a mesh
SkipFile ==
  /\ pc = "walk" /\ fi <= Len(tree)
  /\ ~IsMeshFile(tree[fi].file)
  /\ fi' = fi + 1
  /\ UNCHANGED kvars
  /\ UNCHANGED <<tree, cameras, out_mode, run, pc, ci, dirs, fs, fs_prev,
                 scene_mesh, scene_camera, render_result, cameras_K,
                 cameras_RT, imported, log, exc>>

\* lines 220-247: the file is imported into the scene
ImportMesh ==
  /\ pc = "walk" /\ fi <= Len(tree)
  /\ IsMeshFile(tree[fi].file)
  /\ imported' = Append(imported, fi)
  /\ scene_mesh' = fi
  /\ pc' = "enter"
  /\ UNCHANGED kvars
  /\ UNCHANGED <<tree, cameras, out_mode, run, fi, ci, dirs, fs, fs_prev,
                 scene_camera, render_result, cameras_K, cameras_RT, log,
                 exc>>

\* lines 66-71: the start of render_depth_color
EnterRenderDepthColor ==
  /\ pc = "enter"
  /\ dirs' = dirs \cup {out_dir}
  /\ cameras_K' = <<>>
  /\ cameras_RT' = <<>>
  /\ ci' = 1
  /\ pc' = "loop"
  /\ UNCHANGED kvars
  /\ UNCHANGED <<tree, cameras, out_mode, run, fi, fs, fs_prev, scene_mesh,
                 scene_camera, render_result, imported, log, exc>>

\* a bug that leaves the scene camera as it was
SetSceneCameraStale(cam) == scene_camera' = scene_camera

\* line 93
SetSceneCamera(cam) == scene_camera' = cam.name

\* lines 74-112: the next camera is made the scene camera; the mode decides
\* whether it renders
SelectCamera ==
  /\ pc = "loop" /\ ci <= Len(cameras)
  /\ SetSceneCamera(camera)
  /\ log' = Append(log, Event("select", camera.name, scene_camera'))
  /\ pc' = AfterDecision(ShouldRender(out_mode, camera.name))
  /\ UNCHANGED kvars
  /\ UNCHANGED <<tree, cameras, out_mode, run, fi, ci, dirs, fs, fs_prev,
                 scene_mesh, render_result, cameras_K, cameras_RT, imported,
                 exc>>

\* line 100: the renderer renders the scene through the scene camera
Render ==
  /\ pc = "render"
  /\ render_result' = [mesh |-> scene_mesh, cam |-> scene_camera]
  /\ log' = Append(log, Event("render", camera.name, scene_camera))
  /\ pc' = "save_image"
  /\ UNCHANGED kvars
  /\ UNCHANGED <<tree, cameras, out_mode, run, fi, ci, dirs, fs, fs_prev,
                 scene_mesh, scene_camera, cameras_K, cameras_RT, imported,
                 exc>>

\* line 104
SaveImage ==
  /\ pc = "save_image"
  /\ fs' = WriteFile(fs, outpath_image(out_dir, camera.name), <<render_result>>)
  /\ log' = Append(log, Event("save_image", camera.name, scene_camera))
  /\ pc' = "krt"
  /\ UNCHANGED kvars
  /\ UNCHANGED <<tree, cameras, out_mode, run, fi, ci, dirs, fs_prev,
                 scene_mesh, scene_camera, render_result, cameras_K,
                 cameras_RT, imported, exc>>

\* lines 115-122
ComputeKRT ==
  /\ pc = "krt"
  /\ LET r == get_K_from_blender(camera.data, SceneRender) IN
       /\ ~r.raised
       /\ cameras_K' = DictSet(cameras_K, camera.name, Flatten(r.K))
       /\ cameras_RT' = DictSet(cameras_RT, camera.name, RTRow(camera))
  /\ pc' = "write_K"
  /\ UNCHANGED kvars
  /\ UNCHANGED <<tree, cameras, out_mode, run, fi, ci, dirs, fs, fs_prev,
                 scene_mesh, scene_camera, render_result, imported, log, exc>>

\* line 115 when a division of get_K_from_blender raises
ComputeKRaises ==
  /\ pc = "krt"
  /\ get_K_from_blender(camera.data, SceneRender).raised
  /\ Propagate("ZeroDivisionError")

\* line 125
WriteK ==
  /\ pc = "write_K"
  /\ fs' = WriteFile(fs, outpath_K(out_dir, camera.name),
                     DictGet(cameras_K, camera.name))
  /\ log' = Append(log, Event("write_K", camera.name, scene_camera))
  /\ pc' = "write_RT"
  /\ UNCHANGED kvars
  /\ UNCHANGED <<tree, cameras, out_mode, run, fi, ci, dirs, fs_prev,
                 scene_mesh, scene_camera, render_result, cameras_K,
                 cameras_RT, imported, exc>>

\* line 127
WriteRT ==
  /\ pc = "write_RT"
  /\ fs' = WriteFile(fs, outpath_RT(out_dir, camera.name),
                     DictGet(cameras_RT, camera.name))
  /\ log' = Append(log, Event("write_RT", camera.name, scene_camera))
  /\ pc' = "next"
  /\ UNCHANGED kvars
  /\ UNCHANGED <<tree, cameras, out_mode, run, fi, ci, dirs, fs_prev,
                 scene_mesh, scene_camera, render_result, cameras_K,
                 cameras_RT, imported, exc>>

\* line 74: the loop goes to the next camera
NextCamera ==
  /\ pc = "next"
  /\ ci' = ci + 1
  /\ pc' = "loop"
  /\ UNCHANGED kvars
  /\ UNCHANGED <<tree, cameras, out_mode, run, fi, dirs, fs, fs_prev,
                 scene_mesh, scene_camera, render_result, cameras_K,
                 cameras_RT, imported, log, exc>>

\* line 133
WriteIntrinsic ==
  /\ pc = "loop" /\ ci > Len(cameras)
  /\ fs' = WriteFile(fs, path_intrinsic(out_dir), DictValues(cameras_K))
  /\ log' = Append(log, Event("intrinsic", <<>>, scene_camera))
  /\ pc' = "extrinsic"
  /\ UNCHANGED kvars
  /\ UNCHANGED <<tree, cameras, out_mode, run, fi, ci, dirs, fs_prev,
                 scene_mesh, scene_camera, render_result, cameras_K,
                 cameras_RT, imported, exc>>

\* line 134
WriteExtrinsic ==
  /\ pc = "extrinsic"
  /\ fs' = WriteFile(fs, path_extrinsic(out_dir), DictValues(cameras_RT))
  /\ log' = Append(log, Event("extrinsic", <<>>, scene_camera))
  /\ pc' = "cleanup"
  /\ UNCHANGED kvars
  /\ UNCHANGED <<tree, cameras, out_mode, run, fi, ci, dirs, fs_prev,
                 scene_mesh, scene_camera, render_result, cameras_K,
                 cameras_RT, imported, exc>>

\* lines 252-263: the imported object leaves the scene, the walk goes on
Cleanup ==
  /\ pc = "cleanup"
  /\ scene_mesh' = 0
  /\ fi' = fi + 1
  /\ log' = <<>>
  /\ pc' = "walk"
  /\ UNCHANGED kvars
  /\ UNCHANGED <<tree, cameras, out_mode, run, ci, dirs, fs, fs_prev,
                 scene_camera, render_result, cameras_K, cameras_RT, imported,
                 exc>>

\* the walk is over: the script ends
WalkDone ==
  /\ pc = "walk" /\ fi > Len(tree)
  /\ pc' = "done"
  /\ UNCHANGED kvars
  /\ UNCHANGED <<tree, cameras, out_mode, run, fi, ci, dirs, fs, fs_prev,
                 scene_mesh, scene_camera, render_result, cameras_K,
                 cameras_RT, imported, log, exc>>

\* bpy.ops.import_scene.obj or bpy.ops.render.render raises
HostRaises ==
  /\ \/ pc = "walk" /\ fi <= Len(tree) /\ IsMeshFile(tree[fi].file)
     \/ pc = "render"
  /\ Propagate("RuntimeError")

\* os.makedirs, save_render or numpy.savetxt raises
WriteRaises ==
  /\ \/ pc \in {"enter", "save_image", "write_K", "write_RT", "extrinsic"}
     \/ pc = "loop" /\ ci > Len(cameras)
  /\ Propagate("OSError")

\* the same command line is run again on the same tree and scene; the
\* output tree is the one the previous run left
Rerun ==
  /\ pc = "done" /\ run < MaxRuns
  /\ run' = run + 1
  /\ fs_prev' = [fs |-> fs, dirs |-> dirs]
  /\ pc' = "walk"
  /\ fi' = 1
  /\ ci' = 1
  /\ scene_mesh' = 0
  /\ scene_camera' = <<>>
  /\ render_result' = NoRender
  /\ cameras_K' = <<>>
  /\ cameras_RT' = <<>>
  /\ imported' = <<>>
  /\ log' = <<>>
  /\ UNCHANGED kvars
  /\ UNCHANGED <<tree, cameras, out_mode, dirs, fs, exc>>

Init ==
  /\ tree \in TreeChoices
  /\ cameras \in RigChoices
  /\ out_mode \in ModeChoices
  /\ run = 1
  /\ pc = "walk"
  /\ fi = 1
  /\ ci = 1
  /\ dirs = {}
  /\ fs = [p \in {} |-> <<>>]
  /\ fs_prev = [fs |-> [p \in {} |-> <<>>], dirs |-> {}]
  /\ scene_mesh = 0
  /\ scene_camera = <<>>
  /\ render_result = NoRender
  /\ cameras_K = <<>>
  /\ cameras_RT = <<>>
  /\ imported = <<>>
  /\ log = <<>>
  /\ exc = NoExc
  /\ kcam = [lens |-> 50, sensor_width |-> 36, sensor_height |-> 24,
             sensor_fit |-> "AUTO"]
  /\ krender = SceneRender
  /\ kout = NoK
  /\ kprev = NoK
  /\ kpc = "unused"

Next ==
  \/ SkipFile
  \/ ImportMesh
  \/ EnterRenderDepthColor
  \/ SelectCamera
  \/ Render
  \/ SaveImage
  \/ ComputeKRT
  \/ ComputeKRaises
  \/ WriteK
  \/ WriteRT
  \/ NextCamera
  \/ WriteIntrinsic
  \/ WriteExtrinsic
  \/ Cleanup
  \/ WalkDone
  \/ HostRaises
  \/ WriteRaises
  \/ Rerun

Spec == Init /\ [][Next]_vars

(***************************************************************************)
(* The intrinsics derivation on its own: get_K_from_blender applied to     *)
(* camera data and render settings drawn from small sets, then applied     *)
(* again after the sensor fit of the camera was switched.                  *)
(***************************************************************************)
FitChoices == {"AUTO", "HORIZONTAL", "VERTICAL"}

CamDataChoices ==
  [lens : {35, 50}, sensor_width : {0, 32, 36}, sensor_height : {0, 18, 24},
   sensor_fit : FitChoices]

RenderChoices ==
  [resolution_x : {640, 1920}, resolution_y : {480, 1080},
   resolution_percentage : {50, 100},
   pixel_aspect_x : {1, 2}, pixel_aspect_y : {1, 2}]

InitK ==
  /\ kcam \in CamDataChoices
  /\ krender \in RenderChoices
  /\ kout = NoK
  /\ kprev = NoK
  /\ kpc = "input"
  /\ tree = <<>>
  /\ cameras = <<>>
  /\ out_mode = S_all
  /\ run = 1
  /\ pc = "intrinsics"
  /\ fi = 1
  /\ ci = 1
  /\ dirs = {}
  /\ fs = [p \in {} |-> <<>>]
  /\ fs_prev = [fs |-> [p \in {} |-> <<>>], dirs |-> {}]
  /\ scene_mesh = 0
  /\ scene_camera = <<>>
  /\ render_result = NoRender
  /\ cameras_K = <<>>
  /\ cameras_RT = <<>>
  /\ imported = <<>>
  /\ log = <<>>
  /\ exc = NoExc

\* get_K_from_blender(camd) is called
ComputeK ==
  /\ kpc \in {"input", "switched"}
  /\ kout' = get_K_from_blender(kcam, krender)
  /\ kpc' = IF kpc = "input" THEN "computed" ELSE "recomputed"
  /\ UNCHANGED <<kcam, krender, kprev>>
  /\ UNCHANGED mainvars

\* camd.sensor_fit is set to another mode, everything else is held
SwitchFit ==
  /\ kpc = "computed"
  /\ ~kout.raised
  /\ \E fit \in FitChoices \ {kcam.sensor_fit} :
       kcam' = [kcam EXCEPT !.sensor_fit = fit]
  /\ kprev' = kout
  /\ kpc' = "switched"
  /\ UNCHANGED <<krender, kout>>
  /\ UNCHANGED mainvars

NextK ==
  \/ ComputeK
  \/ SwitchFit

SpecK == InitK /\ [][NextK]_vars

(***************************************************************************)
(* Properties.                                                             *)
(***************************************************************************)
\* the log has a step op for the camera called name
Logged(op, name) == \E k \in 1..Len(log) : log[k].op = op /\ log[k].cam = name

\* render_depth_color has returned for the mesh at fi
Returned == pc = "cleanup" /\ exc = NoExc

\* the mode token is a substring of the name when letter case is ignored
MatchesIgnoringCase(mode, name) == IsSubstr(Upper(mode), Upper(name))

\* C1: in render_depth_color a raster is rendered and saved for a camera if
\* and only if the mode is `all` or the mode token is a substring of the
\* camera name under case-insensitive comparison.
C1_RasterIffModeMatchesIgnoringCase ==
  Returned =>
    \A i \in 1..Len(cameras) :
      Logged("save_image", cameras[i].name)
        <=> (out_mode = S_all \/ MatchesIgnoringCase(out_mode, cameras[i].name))

\* C2: when render_depth_color returns, every camera of the rig has its
\* _K.txt and _RT.txt written in this call, selected for a raster or not, and
\* a raster was saved, and a raster file exists, only for selected cameras.
C2_CalibrationForEveryCamera ==
  Returned =>
    \A i \in 1..Len(cameras) :
      LET name == cameras[i].name IN
      /\ Logged("write_K", name) /\ Logged("write_RT", name)
      /\ outpath_K(out_dir, name) \in DOMAIN fs
      /\ outpath_RT(out_dir, name) \in DOMAIN fs
      /\ fs[outpath_RT(out_dir, name)] = RTRow(cameras[i])
      /\ Logged("save_image", name) <=> ShouldRender(out_mode, name)
      /\ outpath_image(out_dir, name) \in DOMAIN fs
           => ShouldRender(out_mode, name)

\* C2 witness: the call returned for a rig with a camera that was rendered
\* and a camera that was not
C2_Witness ==
  /\ Returned
  /\ \E i, j \in 1..Len(cameras) :
       /\ ShouldRender(out_mode, cameras[i].name)
       /\ ~ShouldRender(out_mode, cameras[j].name)
       /\ outpath_K(out_dir, cameras[j].name) \in DOMAIN fs
       /\ outpath_image(out_dir, cameras[j].name) \notin DOMAIN fs

\* the cameras of the steps op of the log, in the order of the log
LoggedCameras(op) ==
  LET IsOp(e) == e.op = op
      sel == SelectSeq(log, IsOp)
  IN [k \in 1..Len(sel) |-> sel[k].cam]

\* C3: when render_depth_color returns, intrinsic.txt and extrinsic.txt hold
\* one row per camera, the i-th row being the K (the R,T) of the i-th camera
\* of the enumeration, which is the i-th camera processed.
C3_AggregateRowsInCameraOrder ==
  Returned =>
    /\ path_intrinsic(out_dir) \in DOMAIN fs
    /\ path_extrinsic(out_dir) \in DOMAIN fs
    /\ Len(fs[path_intrinsic(out_dir)]) = Len(cameras)
    /\ Len(fs[path_extrinsic(out_dir)]) = Len(cameras)
    /\ LoggedCameras("write_K") = [i \in 1..Len(cameras) |-> cameras[i].name]
    /\ \A i \in 1..Len(cameras) :
         /\ fs[path_intrinsic(out_dir)][i]
              = Flatten(get_K_from_blender(cameras[i].data, SceneRender).K)
         /\ fs[path_intrinsic(out_dir)][i]
              = fs[outpath_K(out_dir, cameras[i].name)]
         /\ fs[path_extrinsic(out_dir)][i] = RTRow(cameras[i])

\* C3 witness: the call returned for a rig of at least two cameras
C3_Witness ==
  /\ Returned
  /\ Len(cameras) >= 2
  /\ Len(fs[path_intrinsic(out_dir)]) >= 2

\* C4: after a complete run, meshes of the run do not share an output
\* directory, and the rasters written for a mesh are still those of that mesh.
C4_EveryMeshKeepsItsOutput ==
  (pc = "done" /\ run = 1) =>
    \A a, b \in 1..Len(imported) :
      LET i == imported[a]
          j == imported[b]
      IN (/\ Splitext(tree[i].file)[2] = S_dot_obj
          /\ Splitext(tree[j].file)[2] = S_dot_obj) =>
           /\ i # j => OutDir(tree[i]) # OutDir(tree[j])
           /\ \A c \in 1..Len(cameras) :
                ShouldRender(out_mode, cameras[c].name) =>
                  fs[outpath_image(OutDir(tree[i]), cameras[c].name)]
                    = <<[mesh |-> i, cam |-> cameras[c].name]>>

\* the positions from which an exception leaves the aggregate files of the
\* mesh unwritten
BeforeAggregates ==
  {"walk", "enter", "loop", "render", "save_image", "krt", "write_K", "write_RT"}

\* C5 as amended: a failure is not caught and ends the batch: the script is
\* aborted and nothing is processed or written afterwards, the files written
\* before remain; the aggregate files of the failing mesh are not written,
\* except that intrinsic.txt is already written when it is the write of
\* extrinsic.txt that fails.
C5_FailureAbortsBatch ==
  /\ [](exc # NoExc =>
          /\ pc = "aborted"
          /\ ~Logged("extrinsic", <<>>)
          /\ exc.at \in BeforeAggregates => ~Logged("intrinsic", <<>>)
          /\ exc.at = "extrinsic" => Logged("intrinsic", <<>>))
  /\ [][exc # NoExc =>
          UNCHANGED <<pc, fi, ci, fs, dirs, log, imported, exc>>]_vars

\* C5 witness: a division by zero ended the batch with files written, a
\* camera of the rig and a mesh of the tree still to come
C5_Witness ==
  /\ exc.type = "ZeroDivisionError"
  /\ pc = "aborted"
  /\ ci < Len(cameras)
  /\ DOMAIN fs # {}
  /\ \E j \in (fi + 1)..Len(tree) : IsMeshFile(tree[j].file)

\* C5 as stated: after any failure the batch is aborted and neither aggregate
\* file of the failing mesh has been written.
C5_NoAggregateAfterAnyFailure ==
  exc # NoExc =>
    /\ pc = "aborted"
    /\ ~Logged("intrinsic", <<>>)
    /\ ~Logged("extrinsic", <<>>)

\* r is the rational num / den
RatIs(r, num, den) == r[2] # 0 /\ r[1] * den = r[2] * num

KComputed == kpc \in {"computed", "recomputed"}

\* C6: for non-zero sensor dimensions get_K_from_blender returns
\* K = [[alpha_u,0,u0],[0,alpha_v,v0],[0,0,1]] with, s = percentage/100 and
\* par = aspect_x/aspect_y, alpha_u = f*w*s/sensor_w/par and
\* alpha_v = f*h*s/sensor_h for fit vertical, alpha_u = f*w*s/sensor_w and
\* alpha_v = f*h*s*par/sensor_h otherwise, u0 = w*s/2, v0 = h*s/2.
C6_IntrinsicsFormula ==
  (KComputed /\ kcam.sensor_width # 0 /\ kcam.sensor_height # 0) =>
    LET f == kcam.lens
        w == krender.resolution_x
        h == krender.resolution_y
        pct == krender.resolution_percentage
        ax == krender.pixel_aspect_x
        ay == krender.pixel_aspect_y
        K == kout.K
    IN /\ ~kout.raised
       /\ IF kcam.sensor_fit = "VERTICAL"
            THEN /\ RatIs(K[1][1], f * w * pct * ay, 100 * kcam.sensor_width * ax)
                 /\ RatIs(K[2][2], f * h * pct, 100 * kcam.sensor_height)
            ELSE /\ RatIs(K[1][1], f * w * pct, 100 * kcam.sensor_width)
                 /\ RatIs(K[2][2], f * h * pct * ax, 100 * kcam.sensor_height * ay)
       /\ RatIs(K[1][3], w * pct, 200)
       /\ RatIs(K[2][3], h * pct, 200)
       /\ K[1][2] = <<0, 1>>
       /\ K[2][1] = <<0, 1>>
       /\ K[3] = << <<0, 1>>, <<0, 1>>, <<1, 1>> >>

\* C6 witness: K was computed for a vertical fit with non-square pixels
C6_Witness ==
  /\ KComputed
  /\ ~kout.raised
  /\ kcam.sensor_fit = "VERTICAL"
  /\ krender.pixel_aspect_x # krender.pixel_aspect_y
  /\ kcam.sensor_width # kcam.sensor_height

\* C7: with a pixel aspect ratio of 1, get_K_from_blender returns the same K
\* after the sensor fit was switched, everything else held.
C7_FitIrrelevantForSquarePixels ==
  (kpc = "recomputed" /\ krender.pixel_aspect_x = krender.pixel_aspect_y) =>
    kout = kprev

\* C7 witness: K was recomputed with square pixels after a switch between
\* the vertical and a non-vertical fit
C7_Witness ==
  /\ kpc = "recomputed"
  /\ krender.pixel_aspect_x = krender.pixel_aspect_y
  /\ kcam.sensor_fit = "VERTICAL"
  /\ kcam.sensor_width # kcam.sensor_height
  /\ ~kout.raised

\* C8: the walk imports a file if and only if its name has the extension
\* .obj.
C8_ImportedIffObjExtension ==
  pc = "done" =>
    \A i \in 1..Len(tree) :
      (\E k \in 1..Len(imported) : imported[k] = i)
        <=> Splitext(tree[i].file)[2] = S_dot_obj

\* C9: a second complete run of the batch on the same tree, arguments and
\* rig leaves the output tree exactly as the run before left it.
C9_RerunLeavesOutputUnchanged ==
  (pc = "done" /\ run >= 2) => (fs = fs_prev.fs /\ dirs = fs_prev.dirs)

\* C9 witness: the second run is complete, with rasters and calibration
\* files of a mesh in the output tree
C9_Witness ==
  /\ pc = "done" /\ run = 2
  /\ Len(imported) >= 2
  /\ \E p \in DOMAIN fs : p.name = S_intrinsic_txt
  /\ \E c \in 1..Len(cameras) :
       outpath_image(OutDir(tree[imported[1]]), cameras[c].name) \in DOMAIN fs

\* position of a step in the order of render_depth_color: the camera's
\* place in the enumeration, then the step's place in the loop body
RECURSIVE CamIndex(_, _)
CamIndex(name, i) ==
  IF i > Len(cameras) THEN i
  ELSE IF cameras[i].name = name THEN i ELSE CamIndex(name, i + 1)

OpRank(op) ==
  CASE op = "select" -> 1
    [] op = "render" -> 2
    [] op = "save_image" -> 3
    [] op = "write_K" -> 4
    [] op = "write_RT" -> 5
    [] op = "intrinsic" -> 6
    [] op = "extrinsic" -> 7

Rank(e) == 10 * CamIndex(e.cam, 1) + OpRank(e.op)

\* C10: a camera is the scene's render camera when the renderer is invoked
\* for it, so every raster saved under a camera's name was rendered through
\* that camera; the steps of a camera come in the order select, render,
\* save, K, RT, all steps of a camera before any step of the next, and the
\* aggregate files after every camera's files.
C10_SequentialAndRasterOfItsCamera ==
  /\ \A k \in 1..Len(log) :
       log[k].op \in {"render", "save_image"} => log[k].active = log[k].cam
  /\ \A k \in 1..(Len(log) - 1) : Rank(log[k]) < Rank(log[k + 1])
  /\ \A k \in 1..Len(log) : log[k].op = "save_image" => k > 1 /\ log[k - 1].op = "render"
  /\ \A i \in 1..Len(tree) : \A c \in 1..Len(cameras) :
       LET p == outpath_image(OutDir(tree[i]), cameras[c].name) IN
       p \in DOMAIN fs => fs[p][1].cam = cameras[c].name

\* C10 witness: the second camera of a rig was rendered and saved after the
\* first, and the aggregate files were written
C10_Witness ==
  /\ Returned
  /\ Len(cameras) >= 2
  /\ Logged("render", cameras[1].name)
  /\ Logged("save_image", cameras[2].name)
  /\ outpath_image(out_dir, cameras[2].name) \in DOMAIN fs

====
